---------------------------- MODULE Spec2Model ----------------------------
(***************************************************************************)
(* The day router of the itinerary backend (routes/days) and the budget    *)
(* field of the client's PersonalizationForm.                              *)
(*                                                                         *)
(* The router is modelled as request handlers that interleave at every     *)
(* `await`: one action is "the awaited operation settles and the handler   *)
(* runs on to its next await (or to its response)".  A store read or write *)
(* takes effect in the step in which its await settles.  Inputs of a       *)
(* request (path parameters, body) are chosen in the step that first reads *)
(* them.  Dates are whole days, counted as integers.  Two requests are      *)
(* served, in any interleaving; they come from u1, who owns itinerary X,   *)
(* and from u2, who owns none.  An awaited operation can reject at any     *)
(* await.  The payload fields overview, time, address and coordinates are  *)
(* left out of the records.                                                *)
(***************************************************************************)
EXTENDS Integers, Sequences, FiniteSets, TLC

VARIABLES
    itins,      \* the Itinerary collection: id -> [userId, startDate, endDate]
    days,       \* the Day collection: id -> day record
    nextId,     \* the next value uuid() hands out
    req,        \* per request handler: its position, locals and what it did
    formValues  \* PersonalizationForm's formValues state

vars == <<itins, days, nextId, req, formValues>>

serverVars == <<itins, days, nextId, req>>

-----------------------------------------------------------------------------
(* Bounds of the model *)

\* the text-generation service answers with at most this many activities
MaxActs == 2

\* a reorder request lists at most this many days
MaxBody == 1

-----------------------------------------------------------------------------
(* Values *)

NONE == "none"

Users == {"u1", "u2"}

ItinIds == {"X", "Y"}

\* an itinerary id that is in no record of the collection
MissingItin == "Q"

Reqs == {"r1", "r2"}

\* the owner of itinerary Y; it sends no request in this model
OtherOwner == "u3"

\* the activities of a text-generation answer are named by numbers; an answer lists
\* 1..k in ascending or descending order (k = 0: no activities)
AiResponses ==
    UNION {{[i \in 1 .. k |-> i], [i \in 1 .. k |-> k + 1 - i]} : k \in 0 .. MaxActs}

Kinds == {"list", "reorder", "acts", "generate", "delete"}

NoItin == [userId |-> NONE, startDate |-> 0, endDate |-> 0]

NoDays == [d \in {} |-> 0]

RECURSIVE SeqsUpTo(_, _)
SeqsUpTo(S, n) ==
    IF n = 0 THEN {<<>>}
    ELSE LET shorter == SeqsUpTo(S, n - 1)
         IN  shorter \cup {Append(s, x) : s \in {t \in shorter : Len(t) = n - 1}, x \in S}

\* ids a client can know: every id uuid() has handed out, and 0, an id no day has
KnownIds == 0 .. (nextId - 1)

DaysOf(store, itin) == {d \in DOMAIN store : store[d].parentItineraryId = itin}

-----------------------------------------------------------------------------
(* Request handlers *)

Idle ==
    [pc |-> "idle", kind |-> "none", user |-> NONE, itin |-> NONE, dayId |-> 0,
     parent |-> NONE,
     it |-> NoItin, n |-> 0, attempt |-> 0, ai |-> <<>>, idx |-> 0,
     acts |-> <<>>, list |-> <<>>, sd |-> 0, ed |-> 0, newDate |-> 0,
     pend |-> {}, resp |-> 0,
     \* what the handler did, kept for the properties:
     \*   trace: the calls and parse failures of the retry block while it runs
     \*   geo, img: geocoding and image-search calls made
     \*   issued, failed: reorder updates issued; whether one rejected
     \*   wroteDays, wroteItins: parent itineraries of days written; itineraries written
     \*   alone: no other request has run since this one arrived
     \*   pre, preIt: the Day collection on arrival and the itinerary as read (if alone)
     trace |-> <<>>, geo |-> 0, img |-> 0, issued |-> 0, failed |-> FALSE,
     wroteDays |-> {}, wroteItins |-> {}, newId |-> 0,
     alone |-> TRUE, pre |-> NoDays, preIt |-> NoItin]

\* the response is sent: the handler's locals are gone
Respond(q, code) ==
    [q EXCEPT !.pc = "done", !.resp = code, !.it = NoItin, !.n = 0, !.attempt = 0,
              !.parent = NONE,
              !.idx = 0, !.acts = <<>>, !.list = <<>>, !.sd = 0, !.ed = 0,
              !.newDate = 0]

\* the status the route's catch block answers with
ErrCode(kind) == IF kind \in {"list", "delete"} THEN 500 ELSE 400

Quiet(q) == q.pc \in {"idle", "done"} /\ q.pend = {}

\* no other request is in flight, nor any update one has left behind
Undisturbed(r) == \A y \in Reqs \ {r} : Quiet(req[y])

\* a request arrives (verifyToken has set req.user.id) and issues its first read
Start(r, kind, user) ==
    /\ req[r].pc = "idle"
    /\ req' = [x \in Reqs |->
                IF x = r
                THEN [Idle EXCEPT !.pc = kind \o ".find", !.kind = kind, !.user = user,
                                  !.alone = Undisturbed(r),
                                  !.pre = IF Undisturbed(r) THEN days ELSE NoDays]
                ELSE IF req[x].pc = "idle" THEN req[x]
                ELSE [req[x] EXCEPT !.alone = FALSE, !.pre = NoDays, !.preIt = NoItin]]
    /\ UNCHANGED <<itins, days, nextId, formValues>>

\* the check of the public explore route, negated: any owned itinerary passes
AuthorizedIfOwned(itinerary, userId) == itinerary.userId # NONE

\* if (itinerary.userId !== userId) return res.status(403)
Authorized(itinerary, userId) == itinerary.userId = userId

\* const itinerary = await Itinerary.findOne({ id }); then the 403 check
FindAndCheck(q, itinId, next) ==
    IF itinId \notin DOMAIN itins
    THEN Respond([q EXCEPT !.itin = itinId], ErrCode(q.kind))
    ELSE IF ~Authorized(itins[itinId], q.user)
    THEN Respond([q EXCEPT !.itin = itinId], 403)
    ELSE [q EXCEPT !.itin = itinId, !.it = itins[itinId],
                   !.preIt = IF q.alone THEN itins[itinId] ELSE NoItin, !.pc = next]

(* GET /:itineraryId *)
ListFind(r, itinId) ==
    /\ req[r].pc = "list.find"
    /\ req' = [req EXCEPT ![r] = FindAndCheck(req[r], itinId, "list.days")]
    /\ UNCHANGED <<itins, days, nextId, formValues>>

ListDays(r) ==
    LET q == req[r] IN
    /\ q.pc = "list.days"
    /\ req' = [req EXCEPT ![r] =
                 Respond([q EXCEPT !.n = Cardinality(DaysOf(days, q.itin))], 200)]
    /\ UNCHANGED <<itins, days, nextId, formValues>>

(* POST /reorder *)

\* the day entries a request body can carry: any parentItineraryId, any known id;
\* the client numbers and dates the entries by their position in the list
BodyEntries == [parentItineraryId : ItinIds, id : KnownIds \ {0}]

\* the day lists of a request body: up to MaxBody entries, no id twice
BodyLists ==
    {l \in SeqsUpTo(BodyEntries, MaxBody) :
        \A i, j \in DOMAIN l : i # j => l[i].id # l[j].id}

BodyDay(e, i) ==
    [parentItineraryId |-> e.parentItineraryId, id |-> e.id, dayNumber |-> i,
     date |-> 30 + i, imageUrl |-> "img", activities |-> <<>>]

\* the filter of the update issued for one entry of the list
ReorderFilter(q, day) == [parentItineraryId |-> day.parentItineraryId, id |-> day.id]

\* days.forEach(async (day) => { await Day.updateOne(...) }): every callback runs to
\* its await, which issues the update; forEach drops the promises
ReorderIssue(q, list) ==
    {[filter |-> ReorderFilter(q, BodyDay(list[i], i)), set |-> BodyDay(list[i], i)]
        : i \in 1 .. Len(list)}

\* what the handler does with the issued updates before it answers 200:
\* nothing; they stay pending
ReorderAwaited(issued) == {}

ReorderFind(r, itinId, isList, list) ==
    LET q == req[r]
        c == FindAndCheck(q, itinId, "reorder.go")
        issued == ReorderIssue(q, list)
    IN
    /\ q.pc = "reorder.find"
    /\ req' = [req EXCEPT ![r] =
                 IF c.pc = "done" THEN c
                 ELSE IF ~isList THEN Respond(c, 400)    \* days.forEach is not a function
                 ELSE Respond([c EXCEPT !.issued = Cardinality(issued),
                                        !.pend = issued \ ReorderAwaited(issued)], 200)]
    /\ UNCHANGED <<itins, days, nextId, formValues>>

Matches(store, d, filter) ==
    /\ d = filter.id
    /\ store[d].parentItineraryId = filter.parentItineraryId

\* a pending Day.updateOne of the forEach completes
ReorderApply(r, u) ==
    LET q == req[r]
        hit == {d \in DOMAIN days : Matches(days, d, u.filter)}
    IN
    /\ u \in q.pend
    /\ days' = [d \in DOMAIN days |->
                  IF d \in hit
                  THEN [days[d] EXCEPT !.dayNumber = u.set.dayNumber,
                                       !.date = u.set.date,
                                       !.imageUrl = u.set.imageUrl,
                                       !.activities = u.set.activities]
                  ELSE days[d]]
    /\ req' = [req EXCEPT ![r] =
                 [q EXCEPT !.pend = q.pend \ {u},
                           !.wroteDays = q.wroteDays \cup
                               {days[d].parentItineraryId : d \in hit}]]
    /\ UNCHANGED <<itins, nextId, formValues>>

\* a pending Day.updateOne of the forEach rejects: nothing awaits it
ReorderFail(r, u) ==
    LET q == req[r] IN
    /\ u \in q.pend
    /\ req' = [req EXCEPT ![r] = [q EXCEPT !.pend = q.pend \ {u}, !.failed = TRUE]]
    /\ UNCHANGED <<itins, days, nextId, formValues>>

(* POST /activities/reorder *)

BodyActivities ==
    {<<>>, <<[activity |-> 2, activityNumber |-> 1],
             [activity |-> 1, activityNumber |-> 2]>>}

\* const day = await Day.findOne({ id: dayId }); Itinerary.findOne({ id: day.parentItineraryId })
ActsFindDay(r, dayId) ==
    LET q == req[r] IN
    /\ q.pc = "acts.find"
    /\ req' = [req EXCEPT ![r] =
                 IF dayId \notin DOMAIN days
                 THEN Respond([q EXCEPT !.dayId = dayId], 400)  \* day is null
                 ELSE [q EXCEPT !.dayId = dayId, !.parent = days[dayId].parentItineraryId,
                                !.pc = "acts.findItin"]]
    /\ UNCHANGED <<itins, days, nextId, formValues>>

ActsFindItin(r) ==
    LET q == req[r] IN
    /\ q.pc = "acts.findItin"
    /\ req' = [req EXCEPT ![r] = FindAndCheck(q, q.parent, "acts.update")]
    /\ UNCHANGED <<itins, days, nextId, formValues>>

ActsUpdate(r, activities) ==
    LET q == req[r]
        hit == {d \in DOMAIN days : d = q.dayId}
    IN
    /\ q.pc = "acts.update"
    /\ days' = [d \in DOMAIN days |->
                  IF d \in hit THEN [days[d] EXCEPT !.activities = activities] ELSE days[d]]
    /\ req' = [req EXCEPT ![r] =
                 Respond([q EXCEPT !.wroteDays = q.wroteDays \cup
                                       {days[d].parentItineraryId : d \in hit}], 200)]
    /\ UNCHANGED <<itins, nextId, formValues>>

(* POST /generate *)

\* the attempts retry(2, fn) gives fn
RetryAttempts == 2

\* retry: after a failed attempt, is fn called again?
RetryAgain(attempt) == attempt < RetryAttempts

\* an attempt of the retried function has thrown
AttemptFailed(q) ==
    IF RetryAgain(q.attempt)
    THEN [q EXCEPT !.attempt = q.attempt + 1, !.trace = Append(q.trace, "gen"),
                   !.pc = "generate.gen"]
    ELSE Respond([q EXCEPT !.trace = <<>>], 400)

\* an image search for every activity of the response
ImageSearchPerActivity(ai) == Len(ai)

\* the image searches issued once the response is parsed:
\* getImageFromSearch(`${aiResponse.activities[0].location}, ...`)
ImageSearches(ai) == 1

\* aiResponse is there; aiResponse.activities[0].location throws on an empty list
Parsed(q, ai) ==
    IF Len(ai) = 0
    THEN Respond([q EXCEPT !.trace = <<>>], 400)
    ELSE [q EXCEPT !.ai = ai, !.img = q.img + ImageSearches(ai), !.trace = <<>>,
                   !.pc = "generate.image"]

\* debugJson called on every output, parsed or not
CallsDebugJsonAlways(parsedOk) == TRUE

\* catch (e) { return JSON.parse(await debugJson(jsonString)) }: is debugJson called?
CallsDebugJson(parsedOk) == ~parsedOk

GenFindItin(r, itinId) ==
    /\ req[r].pc = "generate.find"
    /\ req' = [req EXCEPT ![r] = FindAndCheck(req[r], itinId, "generate.days")]
    /\ UNCHANGED <<itins, days, nextId, formValues>>

\* const days = await Day.find({ parentItineraryId }); then User.findById is issued
GenFindDays(r) ==
    LET q == req[r] IN
    /\ q.pc = "generate.days"
    /\ req' = [req EXCEPT ![r] =
                 [q EXCEPT !.n = Cardinality(DaysOf(days, q.itin)), !.pc = "generate.user"]]
    /\ UNCHANGED <<itins, days, nextId, formValues>>

\* the user is read; newDate = endDate + 1 day; retry makes its first attempt
GenFindUser(r) ==
    LET q == req[r] IN
    /\ q.pc = "generate.user"
    /\ req' = [req EXCEPT ![r] =
                 [q EXCEPT !.newDate = q.it.endDate + 1, !.attempt = 1,
                           !.trace = Append(q.trace, "gen"), !.pc = "generate.gen"]]
    /\ UNCHANGED <<itins, days, nextId, formValues>>

\* generateDay resolves with a string; JSON.parse succeeds or throws
GenGenerated(r, parsedOk, ai) ==
    LET q == req[r] IN
    /\ q.pc = "generate.gen"
    /\ req' = [req EXCEPT ![r] =
                 IF CallsDebugJson(parsedOk)
                 THEN [q EXCEPT !.trace = q.trace \o (IF parsedOk THEN <<>> ELSE <<"bad">>)
                                            \o <<"dbg">>,
                                !.pc = "generate.debug"]
                 ELSE Parsed(q, ai)]
    /\ UNCHANGED <<itins, days, nextId, formValues>>

\* generateDay rejects
GenGenerateThrows(r) ==
    /\ req[r].pc = "generate.gen"
    /\ req' = [req EXCEPT ![r] = AttemptFailed(req[r])]
    /\ UNCHANGED <<itins, days, nextId, formValues>>

\* debugJson resolves with a string that parses
GenDebugged(r, ai) ==
    /\ req[r].pc = "generate.debug"
    /\ req' = [req EXCEPT ![r] = Parsed(req[r], ai)]
    /\ UNCHANGED <<itins, days, nextId, formValues>>

\* debugJson rejects, or its string does not parse either
GenDebugThrows(r) ==
    /\ req[r].pc = "generate.debug"
    /\ req' = [req EXCEPT ![r] = AttemptFailed(req[r])]
    /\ UNCHANGED <<itins, days, nextId, formValues>>

\* the loop's next await: the address lookup of activity idx, or newDay.save()
LoopNext(q, idx) ==
    IF idx <= Len(q.ai)
    THEN [q EXCEPT !.idx = idx, !.geo = q.geo + 1, !.pc = "generate.address"]
    ELSE [q EXCEPT !.idx = idx, !.pc = "generate.save"]

\* getImageFromSearch resolves; the loop starts
GenImage(r) ==
    /\ req[r].pc = "generate.image"
    /\ req' = [req EXCEPT ![r] = LoopNext(req[r], 1)]
    /\ UNCHANGED <<itins, days, nextId, formValues>>

\* getAddressFromLocation resolves; getCoordsFromLocation is called
GenAddress(r) ==
    LET q == req[r] IN
    /\ q.pc = "generate.address"
    /\ req' = [req EXCEPT ![r] =
                 [q EXCEPT !.geo = q.geo + 1, !.pc = "generate.coords"]]
    /\ UNCHANGED <<itins, days, nextId, formValues>>

\* the activityNumber of the activity at 0-based position index
ActivityNumber(index) == index + 1

\* getCoordsFromLocation resolves; newActivities.push(...); next round
GenCoords(r) ==
    LET q == req[r]
        pushed == Append(q.acts, [activity |-> q.ai[q.idx],
                                  activityNumber |-> ActivityNumber(q.idx - 1)])
    IN
    /\ q.pc = "generate.coords"
    /\ req' = [req EXCEPT ![r] = LoopNext([q EXCEPT !.acts = pushed], q.idx + 1)]
    /\ UNCHANGED <<itins, days, nextId, formValues>>

\* the new day numbered days.length
NewDayNumberFromZero(q) == q.n

\* new Day({...}); the dayNumber it gets
NewDayNumber(q) == q.n + 1

\* await newDay.save()
GenSave(r) ==
    LET q == req[r] IN
    /\ q.pc = "generate.save"
    /\ days' = days @@ (nextId :> [parentItineraryId |-> q.itin,
                                   dayNumber |-> NewDayNumber(q),
                                   date |-> q.newDate,
                                   imageUrl |-> "img",
                                   activities |-> q.acts])
    /\ nextId' = nextId + 1
    /\ req' = [req EXCEPT ![r] =
                 [q EXCEPT !.newId = nextId, !.wroteDays = q.wroteDays \cup {q.itin},
                           !.pc = "generate.itin"]]
    /\ UNCHANGED <<itins, formValues>>

\* await Itinerary.updateOne({ id }, { $set: { endDate: newDate } }); 201
GenUpdateItin(r) ==
    LET q == req[r] IN
    /\ q.pc = "generate.itin"
    /\ itins' = [i \in DOMAIN itins |->
                   IF i = q.itin THEN [itins[i] EXCEPT !.endDate = q.newDate] ELSE itins[i]]
    /\ req' = [req EXCEPT ![r] =
                 Respond([q EXCEPT !.wroteItins = q.wroteItins \cup {q.itin}], 201)]
    /\ UNCHANGED <<days, nextId, formValues>>

(* DELETE /:itineraryId/:id *)

DelFindItin(r, itinId) ==
    LET q == req[r]
        c == FindAndCheck(q, itinId, "delete.del")
    IN
    /\ q.pc = "delete.find"
    /\ req' = [req EXCEPT ![r] =
                 IF c.pc = "done" THEN c
                 ELSE [c EXCEPT !.sd = c.it.startDate, !.ed = c.it.endDate]]
    /\ UNCHANGED <<itins, days, nextId, formValues>>

\* await Day.findOneAndDelete({ parentItineraryId, id })
DelDelete(r, id) ==
    LET q == req[r]
        hit == {d \in DOMAIN days :
                   Matches(days, d, [parentItineraryId |-> q.itin, id |-> id])}
    IN
    /\ q.pc = "delete.del"
    /\ days' = [d \in DOMAIN days \ hit |-> days[d]]
    /\ req' = [req EXCEPT ![r] =
                 [q EXCEPT !.dayId = id, !.pc = "delete.days",
                           !.wroteDays = q.wroteDays \cup
                               {days[d].parentItineraryId : d \in hit}]]
    /\ UNCHANGED <<itins, nextId, formValues>>

\* the orders .sort({ dayNumber: 1 }) can return the ids of S in
SortedByDayNumber(store, S) ==
    {s \in [1 .. Cardinality(S) -> S] :
        /\ \A i, j \in DOMAIN s : i # j => s[i] # s[j]
        /\ \A i, j \in DOMAIN s : i < j => store[s[i]].dayNumber <= store[s[j]].dayNumber}

\* const days = await Day.find({ parentItineraryId }).sort({ dayNumber: 1 })
DelFindDays(r, list) ==
    LET q == req[r] IN
    /\ q.pc = "delete.days"
    /\ list \in SortedByDayNumber(days, DaysOf(days, q.itin))
    /\ req' = [req EXCEPT ![r] =
                 [q EXCEPT !.list = list, !.idx = 1,
                           !.pc = IF Len(list) = 0 THEN "delete.itin" ELSE "delete.renumber"]]
    /\ UNCHANGED <<itins, days, nextId, formValues>>

\* await Day.updateOne({ id: day.id }, { $set: { dayNumber: index + 1, date: startDate } });
\* startDate.setDate(startDate.getDate() + 1)
DelRenumber(r) ==
    LET q == req[r]
        hit == {d \in DOMAIN days : d = q.list[q.idx]}
    IN
    /\ q.pc = "delete.renumber"
    /\ days' = [d \in DOMAIN days |->
                  IF d \in hit
                  THEN [days[d] EXCEPT !.dayNumber = q.idx, !.date = q.sd]
                  ELSE days[d]]
    /\ req' = [req EXCEPT ![r] =
                 [q EXCEPT !.sd = q.sd + 1, !.idx = q.idx + 1,
                           !.wroteDays = q.wroteDays \cup
                               {days[d].parentItineraryId : d \in hit},
                           !.pc = IF q.idx = Len(q.list) THEN "delete.itin"
                                  ELSE "delete.renumber"]]
    /\ UNCHANGED <<itins, nextId, formValues>>

\* $set: { endDate: endDate.setDate(endDate.getDate() - 1) }
DelEndDate(q) == q.ed - 1

DelUpdateItin(r) ==
    LET q == req[r] IN
    /\ q.pc = "delete.itin"
    /\ itins' = [i \in DOMAIN itins |->
                   IF i = q.itin THEN [itins[i] EXCEPT !.endDate = DelEndDate(q)]
                   ELSE itins[i]]
    /\ req' = [req EXCEPT ![r] =
                 Respond([q EXCEPT !.wroteItins = q.wroteItins \cup {q.itin}], 200)]
    /\ UNCHANGED <<days, nextId, formValues>>

\* the awaits whose rejection goes to the route's catch block
Awaits ==
    {"list.find", "list.days", "reorder.find", "acts.find", "acts.findItin",
     "acts.update", "generate.find", "generate.days", "generate.user",
     "generate.image", "generate.address", "generate.coords", "generate.save",
     "generate.itin", "delete.find", "delete.del", "delete.days", "delete.renumber",
     "delete.itin"}

\* an awaited store operation or external call rejects
Throw(r) ==
    LET q == req[r] IN
    /\ q.pc \in Awaits
    /\ req' = [req EXCEPT ![r] = Respond(q, ErrCode(q.kind))]
    /\ UNCHANGED <<itins, days, nextId, formValues>>

-----------------------------------------------------------------------------
(* PersonalizationForm: formValues and its handlers.  A handler runs on the        *)
(* formValues of the latest render.  A JavaScript value is [t, v, s]: undefined,   *)
(* the number v, the string that is the decimal text of v, the empty string, or    *)
(* the (non-numeric) string s.                                                     *)

Undefined == [t |-> "undefined", v |-> 0, s |-> ""]

Num(n) == [t |-> "number", v |-> n, s |-> ""]

Str(n) == [t |-> "numeric string", v |-> n, s |-> ""]

EmptyStr == [t |-> "empty string", v |-> 0, s |-> ""]

Text(s) == [t |-> "string", v |-> 0, s |-> s]

\* Number(x), as > and < apply it to a string operand: "" is 0
ToNumber(x) == x.v

\* el.value = n on an <input>: the DOM keeps the text of n
DomText(n) == Str(n)

\* truthiness: undefined, 0, "" are falsy; "0" is a non-empty string, so truthy
Truthy(x) ==
    CASE x.t = "undefined" -> FALSE
      [] x.t = "empty string" -> FALSE
      [] x.t = "number" -> x.v # 0
      [] OTHER -> TRUE

ToggleFields ==
    {"kids", "pets", "locationPreference", "activityPreference", "culinaryPreference",
     "explorationPreference", "nightlifeImportance", "culturalInterest"}

FormFields == ToggleFields \cup {"peopleInParty", "budget"}

\* the options renderButtonGroup is called with
Options(field) ==
    CASE field \in {"kids", "pets", "culturalInterest"} -> {"Yes", "No"}
      [] field = "locationPreference" -> {"City", "Countryside"}
      [] field = "activityPreference" -> {"Adventure", "Relaxation"}
      [] field = "culinaryPreference" -> {"Fine Dining", "Local Cuisine"}
      [] field = "explorationPreference" -> {"Structured tours", "Independent exploration"}
      [] field = "nightlifeImportance" ->
            {"Very important", "Somewhat important", "Not important"}

\* the numbers the inputs of the form are drawn from
Samples == {0, 4, 99, 100, 2500, 5000, 5001}

\* the values a Slider with these props reports
SliderValues(min, max, step) ==
    {v \in Samples : v >= min /\ v <= max /\ (v - min) % step = 0}

\* the budget Slider's min, max, step
BudgetMin == 100

BudgetMax == 5000

BudgetStep == 10

\* the bounds of the text input's onChange
InputMax == 5000

InputMin == 100

\* the value of a type="number" input: the empty string or the text of a number
TextValues == {EmptyStr} \cup {Str(n) : n \in Samples}

\* useState({ f: initialFormValues.f ? initialFormValues.f : undefined, ... })
InitialState(initialFormValues) ==
    [f \in FormFields |->
        IF Truthy(initialFormValues[f]) THEN initialFormValues[f] ELSE Undefined]

\* setFormValues({ ...formValues, [name]: value })
handleInputChange(fv, name, value) == [fv EXCEPT ![name] = value]

\* setFormValues({ ...formValues, [name]: undefined })
handleReset(fv, name) == [fv EXCEPT ![name] = Undefined]

\* the text input bounded from below only
ClampedBelowOnly(value) ==
    IF ToNumber(value) < InputMin THEN DomText(InputMin) ELSE value

\* if (e.target.value > 5000) e.target.value = 5000;
\* else if (e.target.value < 100) e.target.value = 100;
ClampedInput(value) ==
    IF ToNumber(value) > InputMax THEN DomText(InputMax)
    ELSE IF ToNumber(value) < InputMin THEN DomText(InputMin)
    ELSE value

\* a ToggleButtonGroup's onChange: setFormValues({ ...formValues, [field]: newValue })
ToggleChange(field, newValue) ==
    /\ formValues' = [formValues EXCEPT ![field] = newValue]
    /\ UNCHANGED serverVars

\* the peopleInParty Slider (min 1, max 10, step 1)
PeopleSliderChange(value) ==
    /\ formValues' = handleInputChange(formValues, "peopleInParty", Num(value))
    /\ UNCHANGED serverVars

\* the budget Slider
BudgetSliderChange(value) ==
    /\ formValues' = handleInputChange(formValues, "budget", Num(value))
    /\ UNCHANGED serverVars

\* the budget OutlinedInput
BudgetInputChange(value) ==
    /\ formValues' = handleInputChange(formValues, "budget", ClampedInput(value))
    /\ UNCHANGED serverVars

\* a Reset button
ResetClick(field) ==
    /\ formValues' = handleReset(formValues, field)
    /\ UNCHANGED serverVars

-----------------------------------------------------------------------------
\* itinerary X of u1 holds two days, itinerary Y of another user one
InitItins ==
    [i \in ItinIds |->
        IF i = "X" THEN [userId |-> "u1", startDate |-> 10, endDate |-> 11]
                   ELSE [userId |-> OtherOwner, startDate |-> 20, endDate |-> 20]]

InitDays ==
    (1 :> [parentItineraryId |-> "X", dayNumber |-> 1, date |-> 10,
           imageUrl |-> "img", activities |-> <<>>])
    @@ (2 :> [parentItineraryId |-> "X", dayNumber |-> 2, date |-> 11,
              imageUrl |-> "img", activities |-> <<>>])
    @@ (3 :> [parentItineraryId |-> "Y", dayNumber |-> 1, date |-> 20,
              imageUrl |-> "img", activities |-> <<>>])

Init ==
    /\ itins = InitItins
    /\ days = InitDays
    /\ nextId = 4
    /\ req = [r \in Reqs |-> Idle]
    /\ formValues = InitialState([f \in FormFields |-> Undefined])

Next ==
    \/ \E r \in Reqs, k \in Kinds, u \in Users : Start(r, k, u)
    \/ \E r \in Reqs, i \in ItinIds \cup {MissingItin} : ListFind(r, i)
    \/ \E r \in Reqs : ListDays(r)
    \/ \E r \in Reqs : /\ req[r].pc = "reorder.find"
                       /\ \E i \in ItinIds \cup {MissingItin} :
                            IF FindAndCheck(req[r], i, "reorder.go").pc = "done"
                            THEN ReorderFind(r, i, FALSE, <<>>)   \* the body is not read
                            ELSE \/ ReorderFind(r, i, FALSE, <<>>)
                                 \/ \E list \in BodyLists : ReorderFind(r, i, TRUE, list)
    \/ \E r \in Reqs : \E u \in req[r].pend : ReorderApply(r, u)
    \/ \E r \in Reqs : \E u \in req[r].pend : ReorderFail(r, u)
    \/ \E r \in Reqs, d \in KnownIds : ActsFindDay(r, d)
    \/ \E r \in Reqs : ActsFindItin(r)
    \/ \E r \in Reqs, a \in BodyActivities : ActsUpdate(r, a)
    \/ \E r \in Reqs, i \in ItinIds \cup {MissingItin} : GenFindItin(r, i)
    \/ \E r \in Reqs : GenFindDays(r)
    \/ \E r \in Reqs : GenFindUser(r)
    \/ \E r \in Reqs : /\ req[r].pc = "generate.gen"
                       /\ \E ok \in BOOLEAN, ai \in AiResponses :
                               GenGenerated(r, ok, ai)
    \/ \E r \in Reqs : GenGenerateThrows(r)
    \/ \E r \in Reqs : /\ req[r].pc = "generate.debug"
                       /\ \E ai \in AiResponses : GenDebugged(r, ai)
    \/ \E r \in Reqs : GenDebugThrows(r)
    \/ \E r \in Reqs : GenImage(r)
    \/ \E r \in Reqs : GenAddress(r)
    \/ \E r \in Reqs : GenCoords(r)
    \/ \E r \in Reqs : GenSave(r)
    \/ \E r \in Reqs : GenUpdateItin(r)
    \/ \E r \in Reqs, i \in ItinIds \cup {MissingItin} : DelFindItin(r, i)
    \/ \E r \in Reqs, d \in KnownIds : DelDelete(r, d)
    \/ \E r \in Reqs : /\ req[r].pc = "delete.days"
                       /\ \E l \in SortedByDayNumber(days, DaysOf(days, req[r].itin)) :
                               DelFindDays(r, l)
    \/ \E r \in Reqs : DelRenumber(r)
    \/ \E r \in Reqs : DelUpdateItin(r)
    \/ \E r \in Reqs : Throw(r)

Spec == Init /\ [][Next]_vars

\* the form is opened on initialFormValues whose budget is absent or a sampled
\* number within the slider's range; the router is at rest
InitForm ==
    /\ itins = InitItins
    /\ days = NoDays
    /\ nextId = 1
    /\ req = [r \in Reqs |-> Idle]
    /\ \E b \in {Undefined} \cup {Num(n) : n \in SliderValues(BudgetMin, BudgetMax, 1)} :
          formValues = InitialState([f \in FormFields |->
                                        IF f = "budget" THEN b ELSE Undefined])

NextForm ==
    \/ \E f \in ToggleFields : \E o \in Options(f) : ToggleChange(f, Text(o))
    \/ \E v \in SliderValues(1, 10, 1) : PeopleSliderChange(v)
    \/ \E v \in SliderValues(BudgetMin, BudgetMax, BudgetStep) : BudgetSliderChange(v)
    \/ \E v \in TextValues : BudgetInputChange(v)
    \/ \E f \in FormFields : ResetClick(f)

SpecForm == InitForm /\ [][NextForm]_vars

-----------------------------------------------------------------------------
(* Properties *)

\* a request for an itinerary that exists and belongs to another user
Foreign(q) == q.itin \in DOMAIN itins /\ itins[q.itin].userId # q.user

NoWrite(q) == q.wroteDays = {} /\ q.wroteItins = {} /\ q.issued = 0 /\ q.pend = {}

NoExternalCall(q) == q.trace = <<>> /\ q.geo = 0 /\ q.img = 0

\* C1: on every token-protected route, a request whose itinerary belongs to another
\* user is answered 403, and has written nothing to the store and called no
\* external API.
C1_ForeignGets403 ==
    \A r \in Reqs :
        Foreign(req[r]) =>
            /\ req[r].pc = "done"
            /\ req[r].resp = 403
            /\ NoWrite(req[r])
            /\ NoExternalCall(req[r])

\* a foreign delete and a foreign generate request have both been answered
C1_Witness ==
    /\ req["r1"].kind = "delete" /\ Foreign(req["r1"]) /\ req["r1"].resp = 403
    /\ req["r2"].kind = "generate" /\ Foreign(req["r2"]) /\ req["r2"].resp = 403

Count(t, x) == Cardinality({i \in DOMAIN t : t[i] = x})

\* C2: in one generate request the text-generation call is made at most twice, and
\* a fix-the-JSON call is made only directly after the parse of the attempt's own
\* output has failed, hence at most once per attempt.
C2_SingleRetry ==
    \A r \in Reqs :
        LET t == req[r].trace IN
        /\ Count(t, "gen") <= 2
        /\ \A i \in DOMAIN t :
              t[i] = "dbg" => i > 2 /\ t[i - 1] = "bad" /\ t[i - 2] = "gen"

\* both attempts of a request have needed the fallback
C2_Witness ==
    \E r \in Reqs : req[r].trace = <<"gen", "bad", "dbg", "gen", "bad", "dbg">>

Created(q) == q.kind = "generate" /\ q.resp = 201

\* C3 (as amended): a generate request answered 201 on a response of k activities
\* has made 2k geocoding calls and one image-search call.
C3_CallsPerResponse ==
    \A r \in Reqs :
        Created(req[r]) => req[r].geo = 2 * Len(req[r].ai) /\ req[r].img = 1

\* C3 (as claimed): 2k geocoding calls and k image-search calls.
C3_ImagePerActivity ==
    \A r \in Reqs :
        Created(req[r]) => req[r].geo = 2 * Len(req[r].ai) /\ req[r].img = Len(req[r].ai)

\* a day of two activities has been created
C3_Witness == \E r \in Reqs : Created(req[r]) /\ Len(req[r].ai) = 2

\* C4 (as claimed): a reorder request is answered 200 only when every update it
\* issued has completed and none has failed.
C4_AnsweredAfterUpdates ==
    \A r \in Reqs :
        (req[r].kind = "reorder" /\ req[r].resp = 200) =>
            req[r].pend = {} /\ ~req[r].failed

\* C5: a generate request answered 201 that no other request overlapped has added
\* exactly one day: of the requested itinerary, numbered one more than the days the
\* itinerary had, dated the day after the itinerary's endDate, with the activities
\* of the response numbered 1..k in order; the itinerary's endDate is that date;
\* every other day is as it was.
C5_OneDayAdded ==
    \A r \in Reqs :
        LET q == req[r] IN
        (Created(q) /\ q.alone) =>
            /\ DOMAIN days = DOMAIN q.pre \cup {q.newId}
            /\ q.newId \notin DOMAIN q.pre
            /\ \A d \in DOMAIN q.pre : days[d] = q.pre[d]
            /\ days[q.newId].parentItineraryId = q.itin
            /\ days[q.newId].dayNumber = Cardinality(DaysOf(q.pre, q.itin)) + 1
            /\ days[q.newId].date = q.preIt.endDate + 1
            /\ days[q.newId].activities =
                  [i \in 1 .. Len(q.ai) |-> [activity |-> q.ai[i], activityNumber |-> i]]
            /\ itins[q.itin].endDate = q.preIt.endDate + 1

\* an undisturbed request has created a day from the response <<2, 1>>
C5_Witness ==
    \E r \in Reqs : Created(req[r]) /\ req[r].alone /\ req[r].ai = <<2, 1>>

\* the n days of itin are numbered 1..n and dated startDate, startDate + 1, ...,
\* and endDate is the date of the last
Scheduled(store, itinerary, itin) ==
    LET S == DaysOf(store, itin) IN
    /\ {store[d].dayNumber : d \in S} = 1 .. Cardinality(S)
    /\ \A d \in S : store[d].date = itinerary.startDate + store[d].dayNumber - 1
    /\ itinerary.endDate = itinerary.startDate + Cardinality(S) - 1

\* C6 (as claimed): a delete request answered 200 that no other request overlapped,
\* on a scheduled itinerary, leaves the itinerary scheduled, with the remaining days
\* in their previous order, whatever day id it names.
C6_DeleteKeepsSchedule ==
    \A r \in Reqs :
        LET q == req[r] IN
        (q.kind = "delete" /\ q.resp = 200 /\ q.alone
            /\ Scheduled(q.pre, q.preIt, q.itin)) =>
            /\ Scheduled(days, itins[q.itin], q.itin)
            /\ DaysOf(days, q.itin) \subseteq DaysOf(q.pre, q.itin)
            /\ \A d, e \in DaysOf(days, q.itin) :
                  q.pre[d].dayNumber < q.pre[e].dayNumber =>
                      days[d].dayNumber < days[e].dayNumber

\* C7 (as claimed): a reorder request changes days of its own itinerary only.
C7_ReorderOwnDaysOnly ==
    \A r \in Reqs : req[r].kind = "reorder" => req[r].wroteDays \subseteq {req[r].itin}

\* C8 (as claimed): when the requests were all generate requests for itinerary X and
\* all are answered 201, the days of X have distinct dayNumbers and distinct dates,
\* and endDate has advanced by one day per request.
C8_ConcurrentGenerate ==
    (\A r \in Reqs : Created(req[r]) /\ req[r].itin = "X") =>
        /\ \A d, e \in DaysOf(days, "X") :
              d # e => /\ days[d].dayNumber # days[e].dayNumber
                       /\ days[d].date # days[e].date
        /\ itins["X"].endDate = InitItins["X"].endDate + Cardinality(Reqs)

InRange(n) == n >= 100 /\ n <= 5000

\* C9 (as amended): after every handler, budget is undefined, or a number within
\* 100..5000, or the decimal text of a number within 100..5000; and a step that
\* changes budget changes no other field.
C9_BudgetInRange ==
    [][ /\ \/ formValues'.budget = Undefined
           \/ /\ formValues'.budget.t \in {"number", "numeric string"}
              /\ InRange(formValues'.budget.v)
        /\ formValues'.budget # formValues.budget =>
              \A f \in FormFields \ {"budget"} : formValues'[f] = formValues[f]
      ]_vars

\* C9 (as claimed): budget is undefined or a number within 100..5000.
C9_BudgetIsNumber ==
    \/ formValues.budget = Undefined
    \/ formValues.budget.t = "number" /\ InRange(formValues.budget.v)

\* the text input has put an out-of-range entry into budget while other fields are set
C9_Witness ==
    /\ formValues.budget = Str(5000)
    /\ formValues.kids # Undefined
    /\ formValues.peopleInParty # Undefined

=============================================================================
